---- MODULE Spec2Model ----
(***************************************************************************)
(* WS2300 weather-station driver (src/src/lib.rs).                         *)
(*                                                                         *)
(* Spec       : one public read, Device::try_read(memory), taken one       *)
(*              channel operation (flush / write / read / sleep) at a      *)
(*              time.  The byte channel (serial port + console) is the     *)
(*              environment: every flush, write and read may fail, and a   *)
(*              read that succeeds delivers a byte the environment chooses.*)
(* SpecAll    : Device::read_all, one field accessor at a time; the        *)
(*              accessor's try_read is the loop of lines 286-304 applied   *)
(*              to the results of its read attempts.                       *)
(* SpecEncode : Device::encode_address applied to any 16-bit address.      *)
(* SpecRound  : Device::round applied to decimal inputs.                   *)
(* SpecDecode : the one-byte decoders applied to every byte value.         *)
(*                                                                         *)
(* f32 values are modelled as exact decimals with Digits fractional        *)
(* digits (an integer count of 10^-Digits); the representation error of    *)
(* binary floating point is not modelled.                                  *)
(***************************************************************************)
EXTENDS Integers, Sequences, FiniteSets, TLC

VARIABLES
    memory,     \* the Memory {address, size} try_read was called with
    pc,         \* position of the engine inside try_read / read / reset
    i,          \* try_read: loop variable of `for i in 0..50`
    x,          \* reset: loop variable of `for x in 0..100`
    n,          \* reset: iterations of `for _ in 0..10` completed (0 outside the loop)
    seq,        \* read: index of the command byte being sent
    response,   \* read: the data bytes collected so far
    ret,        \* what try_read returned (kind "none" while it runs)
    op,         \* observer: the last channel operation / sleep performed
    err,        \* observer: the error that ended the previous attempt, seen
                \* by try_read's Err(e) arm; "none" once the next attempt acts
    wire,       \* observer: the data bytes the channel delivered in this attempt
    attempts,   \* observer: how many times read() was entered
    failures,   \* observer: how many times read() returned Err
    field,      \* read_all: index in FieldOrder of the accessor to call next
    values,     \* read_all: the field values decoded so far, in field order
    out,        \* read_all: its result (kind "none" while it runs)
    reads,      \* observer: the try_read calls of read_all, with their results
    call,       \* the pure function that was applied ("none" before)
    arg,        \* its argument
    result      \* its result

engineVars == <<memory, pc, i, x, n, seq, response, ret, op, err, wire, attempts, failures>>
allVars == <<field, values, out, reads>>
fnVars == <<call, arg, result>>
vars == <<engineVars, allVars, fnVars>>

----------------------------------------------------------------------------
(* Program constants *)

MaxAttempts == 50
MaxRounds == 100
MaxResponses == 10
ResetByte == 6
Busy == 1
Ready == 2
SleepUnitMs == 100

(* Bounds of the model *)

Byte == 0 .. 255

\* bytes the console may deliver as data bytes
DataBytes == {0, 16, 33, 255}

\* bytes the console may answer to the reset byte
ResponseBytes == {0, Busy, Ready}

----------------------------------------------------------------------------
(* Memory map, Device::new *)

MemoryMap ==
    [ temperature_indoor  |-> [address |-> 838,  size |-> 2],   \* 0x346
      temperature_outdoor |-> [address |-> 883,  size |-> 2],   \* 0x373
      dewpoint            |-> [address |-> 974,  size |-> 2],   \* 0x3CE
      humidity_indoor     |-> [address |-> 1019, size |-> 1],   \* 0x3FB
      humidity_outdoor    |-> [address |-> 1049, size |-> 1],   \* 0x419
      wind_speed          |-> [address |-> 1321, size |-> 3],   \* 0x529
      wind_dir            |-> [address |-> 1324, size |-> 1],   \* 0x52C
      wind_chill          |-> [address |-> 928,  size |-> 2],   \* 0x3A0
      rain_1h             |-> [address |-> 1204, size |-> 3],   \* 0x4B4
      rain_24h            |-> [address |-> 1175, size |-> 3],   \* 0x497
      rain_total          |-> [address |-> 1234, size |-> 3],   \* 0x4D2
      pressure            |-> [address |-> 1506, size |-> 3],   \* 0x5E2
      tendency            |-> [address |-> 619,  size |-> 1] ]  \* 0x26B

\* the regions Spec calls try_read with: one of each size
Regions == { MemoryMap.tendency, MemoryMap.temperature_indoor, MemoryMap.wind_speed }

----------------------------------------------------------------------------
(* Pure helpers *)

Min(a, b) == IF a < b THEN a ELSE b

\* `as u8`, and u8 arithmetic that wraps
U8(v) == v % 256

RECURSIVE Sum(_)
Sum(s) == IF s = <<>> THEN 0 ELSE Head(s) + Sum(Tail(s))

\* Faulty variant of encode_address: the nibbles least significant first
encode_address_lsb_first(m) ==
    IF m.address = 6
    THEN <<6>>
    ELSE [ k \in 1 .. 5 |->
             IF k <= 4
             THEN U8(130 + U8(((m.address \div (16 ^ (k - 1))) % 16) * 4))
             ELSE U8(Min(194 + m.size * 4, 254)) ]

\* Device::encode_address
encode_address(m) ==
    IF m.address = 6
    THEN <<6>>
    ELSE [ k \in 1 .. 5 |->
             IF k <= 4
             THEN U8(130 + U8(((m.address \div (16 ^ (3 - (k - 1)))) % 16) * 4))
             ELSE U8(Min(194 + m.size * 4, 254)) ]

\* Device::check: the echo expected for command byte `command` at position
\* `sequence`; the u8 subtraction underflows when command is below the offset
check_underflows(command, sequence) ==
    IF sequence < 4 THEN command < 130 ELSE command < 194

\* Faulty variant of check_expected: the position is left out of the echo
check_expected_no_position(command, sequence) ==
    IF sequence < 4
    THEN U8(U8(command - 130) \div 4)
    ELSE U8(48 + (U8(command - 194) \div 4))

check_expected(command, sequence) ==
    IF sequence < 4
    THEN U8(U8(sequence) * 16 + (U8(command - 130) \div 4))
    ELSE U8(48 + (U8(command - 194) \div 4))

check(command, sequence, answer) == check_expected(command, sequence) = answer

\* Faulty variant of check_data: the sum is not reduced to a byte
check_data_no_wrap(answer, resp) == Sum(resp) = answer

\* Device::check_data
check_data(answer, resp) == U8(Sum(resp)) = answer

----------------------------------------------------------------------------
(* Results *)

NoResult == [kind |-> "none", bytes |-> <<>>, msg |-> ""]
Ok(bytes) == [kind |-> "ok", bytes |-> bytes, msg |-> ""]
Err(msg) == [kind |-> "err", bytes |-> <<>>, msg |-> msg]

NoOp == [kind |-> "none", byte |-> -1, ms |-> 0]
FlushOp == [kind |-> "flush", byte |-> -1, ms |-> 0]
WriteOp(b) == [kind |-> "write", byte |-> b, ms |-> 0]
ReadOp(b) == [kind |-> "read", byte |-> b, ms |-> 0]
SleepOp(ms) == [kind |-> "sleep", byte |-> -1, ms |-> ms]

\* a read_exact that failed delivers no byte
Failed == 0 - 1

----------------------------------------------------------------------------
(* Decimal numbers: an f32 value v is the integer v * Unit *)

\* fractional decimal digits carried by the model
Digits == 5

RECURSIVE Pow10(_)
Pow10(k) == IF k <= 0 THEN 1 ELSE 10 * Pow10(k - 1)

Unit == Pow10(Digits)

Abs(v) == IF v < 0 THEN -v ELSE v

\* f32::trunc: the integer part, towards zero
Trunc(v) == IF v >= 0 THEN (v \div Unit) * Unit ELSE -(((-v) \div Unit) * Unit)

\* f32::fract: v - v.trunc(), with the sign of v
Fract(v) == v - Trunc(v)

\* Faulty variant of RoundFract: rounds the signed fraction down
RoundFractFloor(f, k) ==
    IF k >= Digits
    THEN f
    ELSE LET step == Pow10(Digits - k)
         IN  (f \div step) * step

\* (f * factor).round() / factor with factor = 10^k: f32::round rounds half
\* away from zero; f carries Digits digits, so k >= Digits leaves it as it is
RoundFract(f, k) ==
    IF k >= Digits
    THEN f
    ELSE LET step == Pow10(Digits - k)
         IN  IF f >= 0
             THEN ((f + step \div 2) \div step) * step
             ELSE -((((-f) + step \div 2) \div step) * step)

\* Device::round
round(v, k) == Trunc(v) + RoundFract(Fract(v), k)

----------------------------------------------------------------------------
(* Decoders: what each accessor makes of the bytes try_read returned *)

Hi(b) == b \div 16      \* b >> 4
Lo(b) == b % 16         \* b & 0xF

Value(v) == [kind |-> "ok", val |-> v]
Panic == [kind |-> "panic"]

\* Device::temperature
temperature(value) ==
    LET low  == (Hi(value[1]) * Unit) \div 10 + (Lo(value[1]) * Unit) \div 100
        high == (Hi(value[2]) * 10 + Lo(value[2])) * Unit
    IN  Value(round(high + low - 30 * Unit, 1))

\* Device::humidity
humidity(value) == Value(Hi(value[1]) * 10 + Lo(value[1]))

\* Device::wind_speed
wind_speed(value) == Value(((Lo(value[2]) * 256 + value[1]) * Unit) \div 10)

\* Faulty variant of wind_dir: the bearing from the low nibble
wind_dir_low_nibble(value) ==
    LET low == Lo(value[1])
    IN  Value(round(low * (225 * (Unit \div 10)), 1))

\* Device::wind_dir
wind_dir(value) ==
    LET low == Hi(value[1])
    IN  Value(round(low * (225 * (Unit \div 10)), 1))

directions ==
    << "N", "NNE", "NE", "ENE", "E", "ESE", "SE", "SSE",
       "S", "SSW", "SW", "WSW", "W", "WNW", "NW", "NNW" >>

\* Device::wind_direction
wind_direction(value) ==
    LET index == Hi(value[1])
    IN  IF index < Len(directions) THEN Value(directions[index + 1]) ELSE Panic

\* Device::rain
rain(value) ==
    LET low  == (Hi(value[1]) * Unit) \div 10 + (Lo(value[1]) * Unit) \div 100
        med  == (Hi(value[2]) * 10 + Lo(value[2])) * Unit
        high == (Hi(value[3]) * 1000 + Lo(value[3]) * 100) * Unit
    IN  Value(round(low + med + high, 1))

\* Device::pressure
pressure(value) ==
    LET low  == Hi(value[1]) * Unit + (Lo(value[1]) * Unit) \div 10
        med  == (Hi(value[2]) * 100 + Lo(value[2]) * 10) * Unit
        high == (Lo(value[3]) * 1000) * Unit
    IN  Value(round(low + med + high, 1))

tendencies == << "Steady", "Rising", "Falling" >>

\* Device::tendency: tendencies[index] is an indexing that panics out of range
tendency(value) ==
    LET index == Hi(value[1])
    IN  IF index < Len(tendencies) THEN Value(tendencies[index + 1]) ELSE Panic

forecasts == << "Rainy", "Cloudy", "Sunny" >>

\* Device::forecast
forecast(value) ==
    LET index == Lo(value[1])
    IN  IF index < Len(forecasts) THEN Value(forecasts[index + 1]) ELSE Panic

\* read_all: the accessors in the order the struct literal calls them
FieldOrder ==
    << "temperature_indoor", "temperature_outdoor", "dewpoint", "humidity_indoor",
       "humidity_outdoor", "wind_speed", "wind_dir", "wind_direction", "wind_chill",
       "rain_1h", "rain_24h", "rain_total", "pressure", "tendency", "forecast" >>

\* Faulty variant of FieldRegion: the direction label read from the speed region
FieldRegionSpeedForLabel(f) ==
    CASE f = "wind_direction" -> "wind_speed"
      [] f = "forecast" -> "tendency"
      [] OTHER -> f

\* the region of the memory map each accessor passes to try_read
FieldRegion(f) ==
    CASE f = "wind_direction" -> "wind_dir"
      [] f = "forecast" -> "tendency"
      [] OTHER -> f

\* the decoding each accessor applies to the bytes of a successful try_read
Decode(f, value) ==
    CASE f \in {"temperature_indoor", "temperature_outdoor", "dewpoint", "wind_chill"}
           -> temperature(value)
      [] f \in {"humidity_indoor", "humidity_outdoor"} -> humidity(value)
      [] f = "wind_speed" -> wind_speed(value)
      [] f = "wind_dir" -> wind_dir(value)
      [] f = "wind_direction" -> wind_direction(value)
      [] f \in {"rain_1h", "rain_24h", "rain_total"} -> rain(value)
      [] f = "pressure" -> pressure(value)
      [] f = "tendency" -> tendency(value)
      [] f = "forecast" -> forecast(value)

\* an accessor: `let value = self.try_read(..)?;` and then the decoding
Accessor(f, r) == IF r.kind = "ok" THEN Decode(f, r.bytes) ELSE [kind |-> "err", msg |-> r.msg]

----------------------------------------------------------------------------
(* try_read: the Err(e) arm and the end of the loop `for i in 0..50` *)

\* Faulty variant of AttemptFailed: the attempt's own error is returned at once
AttemptFailedSurfaces(e) ==
    /\ err' = e
    /\ failures' = failures + 1
    /\ wire' = <<>>
    /\ attempts' = attempts
    /\ x' = 0
    /\ n' = 0
    /\ seq' = 0
    /\ response' = <<>>
    /\ i' = i
    /\ pc' = "done"
    /\ ret' = Err(e)

\* Faulty variant of AttemptFailed: the retry goes straight to the command
AttemptFailedSkipsHandshake(e) ==
    /\ err' = e
    /\ failures' = failures + 1
    /\ wire' = <<>>
    /\ attempts' = IF i + 1 < MaxAttempts THEN attempts + 1 ELSE attempts
    /\ x' = 0
    /\ n' = 0
    /\ seq' = 0
    /\ response' = <<>>
    /\ IF i + 1 < MaxAttempts
       THEN /\ i' = i + 1
            /\ pc' = "write_command"
            /\ ret' = ret
       ELSE /\ i' = i
            /\ pc' = "done"
            /\ ret' = Err("Try read error")

\* read returned Err(e): try_read swallows e and goes to the next attempt, or,
\* after the last one, returns "Try read error"
AttemptFailed(e) ==
    /\ err' = e
    /\ failures' = failures + 1
    /\ wire' = <<>>
    /\ attempts' = IF i + 1 < MaxAttempts THEN attempts + 1 ELSE attempts
    /\ x' = 0
    /\ n' = 0
    /\ seq' = 0
    /\ response' = <<>>
    /\ IF i + 1 < MaxAttempts
       THEN /\ i' = i + 1
            /\ pc' = "flush"
            /\ ret' = ret
       ELSE /\ i' = i
            /\ pc' = "done"
            /\ ret' = Err("Try read error")

\* Faulty variant of AttemptSucceeded: the loop goes on after a success
AttemptSucceededRetries(bytes) ==
    /\ err' = "none"
    /\ failures' = failures
    /\ x' = 0
    /\ n' = 0
    /\ seq' = 0
    /\ response' = <<>>
    /\ ret' = Ok(bytes)
    /\ IF i + 1 < MaxAttempts
       THEN i' = i + 1 /\ pc' = "flush" /\ attempts' = attempts + 1
       ELSE i' = i /\ pc' = "done" /\ attempts' = attempts

\* read returned Ok(n): try_read returns it
AttemptSucceeded(bytes) ==
    /\ err' = "none"
    /\ UNCHANGED <<failures, attempts>>
    /\ x' = 0
    /\ n' = 0
    /\ seq' = 0
    /\ response' = <<>>
    /\ i' = i
    /\ pc' = "done"
    /\ ret' = Ok(bytes)

\* the attempt goes on
Continue(next) ==
    /\ pc' = next
    /\ err' = "none"
    /\ UNCHANGED <<i, ret, attempts, failures>>

----------------------------------------------------------------------------
(* reset: the handshake *)

\* self.port.borrow_mut().flush()?
Flush ==
    /\ pc = "flush"
    /\ op' = FlushOp
    /\ \E ok \in BOOLEAN :
         IF ok
         THEN Continue("write_reset") /\ UNCHANGED <<x, n, seq, response, wire>>
         ELSE AttemptFailed("io")
    /\ UNCHANGED <<memory, allVars, fnVars>>

\* Faulty variant of WriteReset: a failed write is treated like a failed
\* response read
WriteResetBacksOff ==
    /\ pc = "write_reset"
    /\ op' = WriteOp(ResetByte)
    /\ \E ok \in BOOLEAN :
         IF ok
         THEN Continue("read_response") /\ n' = 0 /\ UNCHANGED <<x, seq, response, wire>>
         ELSE Continue("sleep") /\ n' = 0 /\ UNCHANGED <<x, seq, response, wire>>
    /\ UNCHANGED <<memory, allVars, fnVars>>

\* self.port.borrow_mut().write_all(&[0x06])?
WriteReset ==
    /\ pc = "write_reset"
    /\ op' = WriteOp(ResetByte)
    /\ \E ok \in BOOLEAN :
         IF ok
         THEN Continue("read_response") /\ n' = 0 /\ UNCHANGED <<x, seq, response, wire>>
         ELSE AttemptFailed("io")
    /\ UNCHANGED <<memory, allVars, fnVars>>

\* Faulty variant of ReadResponse: a busy answer sends the reset byte again
ReadResponseResends ==
    /\ pc = "read_response"
    /\ \E b \in ResponseBytes \cup {Failed} :
         /\ op' = ReadOp(b)
         /\ IF b = Busy
            THEN IF n + 1 < MaxResponses
                 THEN Continue("write_reset") /\ n' = n + 1
                 ELSE Continue("sleep") /\ n' = 0
            ELSE IF b = Ready
                 THEN Continue("write_command") /\ n' = 0
                 ELSE Continue("sleep") /\ n' = 0
         /\ IF b = Ready THEN x' = 0 ELSE x' = x
    /\ UNCHANGED <<memory, seq, response, wire, allVars, fnVars>>

\* one iteration of `for _ in 0..10`: read_exact and the match on its result
ReadResponse ==
    /\ pc = "read_response"
    /\ \E b \in ResponseBytes \cup {Failed} :
         /\ op' = ReadOp(b)
         /\ IF b = Busy
            THEN IF n + 1 < MaxResponses
                 THEN Continue("read_response") /\ n' = n + 1
                 ELSE Continue("sleep") /\ n' = 0
            ELSE IF b = Ready
                 THEN Continue("write_command") /\ n' = 0
                 ELSE Continue("sleep") /\ n' = 0
         /\ IF b = Ready THEN x' = 0 ELSE x' = x
    /\ UNCHANGED <<memory, seq, response, wire, allVars, fnVars>>

\* Faulty variant of Sleep: one round more than the loop allows
SleepOneMore ==
    /\ pc = "sleep"
    /\ op' = SleepOp(SleepUnitMs * (x + 1))
    /\ IF x + 1 <= MaxRounds
       THEN Continue("flush") /\ x' = x + 1 /\ n' = 0 /\ UNCHANGED <<seq, response, wire>>
       ELSE AttemptFailed("reset failed")
    /\ UNCHANGED <<memory, allVars, fnVars>>

\* Faulty variant of Sleep: the same pause after every round
SleepFlat ==
    /\ pc = "sleep"
    /\ op' = SleepOp(SleepUnitMs)
    /\ IF x + 1 < MaxRounds
       THEN Continue("flush") /\ x' = x + 1 /\ n' = 0 /\ UNCHANGED <<seq, response, wire>>
       ELSE AttemptFailed("reset failed")
    /\ UNCHANGED <<memory, allVars, fnVars>>

\* Faulty variant of Sleep: the last round is repeated for ever
SleepNeverGivesUp ==
    /\ pc = "sleep"
    /\ op' = SleepOp(SleepUnitMs * (x + 1))
    /\ Continue("flush")
    /\ x' = (IF x + 1 < MaxRounds THEN x + 1 ELSE x)
    /\ n' = 0
    /\ UNCHANGED <<seq, response, wire>>
    /\ UNCHANGED <<memory, allVars, fnVars>>

\* sleep(Duration::from_millis(100 * (x + 1))) and the end of `for x in 0..100`
Sleep ==
    /\ pc = "sleep"
    /\ op' = SleepOp(SleepUnitMs * (x + 1))
    /\ IF x + 1 < MaxRounds
       THEN Continue("flush") /\ x' = x + 1 /\ n' = 0 /\ UNCHANGED <<seq, response, wire>>
       ELSE AttemptFailed("reset failed")
    /\ UNCHANGED <<memory, allVars, fnVars>>

----------------------------------------------------------------------------
(* read: command, data, checksum *)

command == encode_address(memory)

\* self.port.borrow_mut().write_all(&[*c])?
WriteCommand ==
    /\ pc = "write_command"
    /\ op' = WriteOp(command[seq + 1])
    /\ \E ok \in BOOLEAN :
         IF ok
         THEN Continue("read_echo") /\ UNCHANGED <<x, n, seq, response, wire>>
         ELSE AttemptFailed("io")
    /\ UNCHANGED <<memory, allVars, fnVars>>

\* Faulty variant of ReadEcho: a mismatching echo makes the byte be sent again
ReadEchoResends ==
    /\ pc = "read_echo"
    /\ \E b \in Byte \cup {Failed} :
         /\ op' = ReadOp(b)
         /\ IF b = Failed
            THEN AttemptFailed("io")
            ELSE IF check(command[seq + 1], seq, b)
                 THEN /\ seq' = seq + 1
                      /\ IF seq + 1 < Min(Len(command), 5)
                         THEN Continue("write_command")
                         ELSE IF memory.size > 0
                              THEN Continue("read_data")
                              ELSE Continue("read_checksum")
                      /\ UNCHANGED <<x, n, response, wire>>
                 ELSE Continue("write_command") /\ UNCHANGED <<x, n, seq, response, wire>>
    /\ UNCHANGED <<memory, allVars, fnVars>>

\* read_exact of the echo and Self::check(*c, i, buffer[0])?
ReadEcho ==
    /\ pc = "read_echo"
    /\ \E b \in Byte \cup {Failed} :
         /\ op' = ReadOp(b)
         /\ IF b = Failed
            THEN AttemptFailed("io")
            ELSE IF check(command[seq + 1], seq, b)
                 THEN /\ seq' = seq + 1
                      /\ IF seq + 1 < Min(Len(command), 5)
                         THEN Continue("write_command")
                         ELSE IF memory.size > 0
                              THEN Continue("read_data")
                              ELSE Continue("read_checksum")
                      /\ UNCHANGED <<x, n, response, wire>>
                 ELSE AttemptFailed("Check error")
    /\ UNCHANGED <<memory, allVars, fnVars>>

\* one iteration of `for idx in 0..memory.size`
ReadData ==
    /\ pc = "read_data"
    /\ \E b \in DataBytes \cup {Failed} :
         /\ op' = ReadOp(b)
         /\ IF b = Failed
            THEN AttemptFailed("io")
            ELSE /\ response' = Append(response, b)
                 /\ wire' = Append(wire, b)
                 /\ IF Len(response) + 1 < memory.size
                    THEN Continue("read_data")
                    ELSE Continue("read_checksum")
                 /\ UNCHANGED <<x, n, seq>>
    /\ UNCHANGED <<memory, allVars, fnVars>>

\* Faulty variant of ReadChecksum: the checksum byte is returned with the data
ReadChecksumKeepsChecksum ==
    /\ pc = "read_checksum"
    /\ \E b \in Byte \cup {Failed} :
         /\ op' = ReadOp(b)
         /\ IF b = Failed
            THEN AttemptFailed("io")
            ELSE IF check_data(b, response)
                 THEN AttemptSucceeded(Append(response, b)) /\ UNCHANGED wire
                 ELSE AttemptFailed("Check data error")
    /\ UNCHANGED <<memory, allVars, fnVars>>

\* read_exact of the checksum byte and Self::check_data(buffer[0], response)?
ReadChecksum ==
    /\ pc = "read_checksum"
    /\ \E b \in Byte \cup {Failed} :
         /\ op' = ReadOp(b)
         /\ IF b = Failed
            THEN AttemptFailed("io")
            ELSE IF check_data(b, response)
                 THEN AttemptSucceeded(response) /\ UNCHANGED wire
                 ELSE AttemptFailed("Check data error")
    /\ UNCHANGED <<memory, allVars, fnVars>>

----------------------------------------------------------------------------
(* read_all, its accessors, and try_read as a loop over read results *)

\* try_read: `for i in 0..50 { match self.read(memory) {..} }` over the
\* results of the read attempts, results[k] being the result of attempt k
RECURSIVE try_read_from(_, _)
try_read_from(results, k) ==
    IF k > MaxAttempts
    THEN Err("Try read error")
    ELSE IF results[k].kind = "ok"
         THEN results[k]
         ELSE try_read_from(results, k + 1)

try_read(results) == try_read_from(results, 1)

\* raw readings the console may hold for each region
Samples ==
    [ temperature_indoor  |-> { <<80, 81>>, <<37, 72>> },
      temperature_outdoor |-> { <<18, 64>> },
      dewpoint            |-> { <<0, 53>> },
      humidity_indoor     |-> { <<69>>, <<255>> },
      humidity_outdoor    |-> { <<128>> },
      wind_speed          |-> { <<35, 0, 0>>, <<255, 1, 64>> },
      wind_dir            |-> { <<0>>, <<64>>, <<240>> },
      wind_chill          |-> { <<18, 64>> },
      rain_1h             |-> { <<0, 0, 0>>, <<37, 18, 0>> },
      rain_24h            |-> { <<80, 2, 0>> },
      rain_total          |-> { <<21, 67, 1>> },
      pressure            |-> { <<50, 1, 1>>, <<19, 152, 240>> },
      tendency            |-> { <<16>>, <<33>>, <<2>>, <<51>> } ]

\* how many attempts of one try_read the channel lets fail
FailCounts == {0, 1, 3, MaxAttempts - 1, MaxAttempts}

\* the errors a read attempt can end with
ReadErrors == {"io", "reset failed", "Check error", "Check data error"}

\* Data { .. } of read_all, from the values in field order
Data(v) == [ f \in { FieldOrder[k] : k \in 1 .. Len(FieldOrder) } |->
               v[CHOOSE k \in 1 .. Len(FieldOrder) : FieldOrder[k] = f] ]

\* Faulty variant of FieldResult: a failed field is left out and read_all goes on
FieldResultSkipsError(k, d) ==
    /\ values' = Append(values, IF d.kind = "ok" THEN d.val ELSE 0)
    /\ field' = k + 1
    /\ out' = IF k = Len(FieldOrder)
              THEN [kind |-> "ok", data |-> Data(Append(values, 0))]
              ELSE out

\* what read_all does with the result d of the accessor of field number k
FieldResult(k, d) ==
    IF d.kind = "ok"
    THEN /\ values' = Append(values, d.val)
         /\ field' = k + 1
         /\ out' = IF k = Len(FieldOrder)
                   THEN [kind |-> "ok", data |-> Data(Append(values, d.val))]
                   ELSE out
    ELSE /\ values' = <<>>
         /\ field' = k
         /\ out' = d

\* one `field: self.accessor()?` of read_all
ReadField ==
    /\ out.kind = "none"
    /\ field \in 1 .. Len(FieldOrder)
    /\ LET f == FieldOrder[field]
           region == FieldRegion(f)
       IN  \E k \in FailCounts, e \in ReadErrors, v \in Samples[region] :
             LET results == [ j \in 1 .. MaxAttempts |-> IF j <= k THEN Err(e) ELSE Ok(v) ]
                 r == try_read(results)
             IN  /\ reads' = Append(reads, [region |-> region, result |-> r])
                 /\ FieldResult(field, Accessor(f, r))
    /\ UNCHANGED <<engineVars, fnVars>>

----------------------------------------------------------------------------
(* The pure functions applied to drawn inputs *)

\* widths from which the length byte of a command reaches its cap 0xFE
CapSize == 15

Addresses == 0 .. 65535

Sizes == {1, 2, 3, CapSize, CapSize + 1}

ApplyEncode ==
    /\ call = "none"
    /\ call' = "encode_address"
    /\ result' = Value(encode_address(arg))
    /\ UNCHANGED <<arg, engineVars, allVars>>

\* the command loop of read as far as Self::check is concerned: check is
\* applied to command byte k at position k, for the first five bytes; a u8
\* subtraction that underflows panics where overflow checks are compiled in
\* and wraps where they are not
ApplyCheck ==
    /\ call = "none"
    /\ call' = "check"
    /\ LET cmd == encode_address(arg)
           positions == 0 .. (Min(Len(cmd), 5) - 1)
           echoes == [ k \in positions |-> check_expected(cmd[k + 1], k) ]
       IN  \/ result' = Value(echoes)
           \/ /\ \E k \in positions : check_underflows(cmd[k + 1], k)
              /\ result' = Panic
    /\ UNCHANGED <<arg, engineVars, allVars>>

\* decimal places asked of round
MaxPlaces == 5

\* round is drawn inputs k * GridStep, |k| <= MaxGrid, and the values of test_round
MaxGrid == 1000

GridStep == 125 * Pow10(Digits - 5)

RoundExamples ==
    { 100 * Unit, 10012345 * Pow10(Digits - 5), -10012345 * Pow10(Digits - 5) }

RoundInputs == { k * GridStep : k \in -MaxGrid .. MaxGrid } \cup RoundExamples

ApplyRound ==
    /\ call = "none"
    /\ call' = "round"
    /\ result' = Value(round(arg.x, arg.n))
    /\ UNCHANGED <<arg, engineVars, allVars>>

\* the accessors that decode one byte
ByteAccessors == {"wind_dir", "wind_direction", "tendency", "forecast"}

ApplyAccessor ==
    /\ call = "none"
    /\ \E f \in ByteAccessors :
         /\ call' = f
         /\ result' = Accessor(f, arg)
    /\ UNCHANGED <<arg, engineVars, allVars>>

----------------------------------------------------------------------------

\* the engine just after try_read(m) was called
EngineStart(m) ==
    /\ memory = m
    /\ pc = "flush"
    /\ i = 0
    /\ x = 0
    /\ n = 0
    /\ seq = 0
    /\ response = <<>>
    /\ ret = NoResult
    /\ op = NoOp
    /\ err = "none"
    /\ wire = <<>>
    /\ attempts = 1
    /\ failures = 0

\* the parts of the model a specification does not use
EngineIdle ==
    /\ memory = MemoryMap.tendency
    /\ pc = "idle"
    /\ i = 0
    /\ x = 0
    /\ n = 0
    /\ seq = 0
    /\ response = <<>>
    /\ ret = NoResult
    /\ op = NoOp
    /\ err = "none"
    /\ wire = <<>>
    /\ attempts = 0
    /\ failures = 0

AllIdle ==
    /\ field = 0
    /\ values = <<>>
    /\ out = [kind |-> "none"]
    /\ reads = <<>>

FnIdle ==
    /\ call = "none"
    /\ arg = <<>>
    /\ result = [kind |-> "none"]

Init ==
    /\ \E m \in Regions : EngineStart(m)
    /\ AllIdle
    /\ FnIdle

Next ==
    \/ Flush
    \/ WriteReset
    \/ ReadResponse
    \/ Sleep
    \/ WriteCommand
    \/ ReadEcho
    \/ ReadData
    \/ ReadChecksum

Spec == Init /\ [][Next]_vars

\* every channel operation returns, with success or failure, and the
\* single-threaded program then takes its next step
FairSpec == Spec /\ WF_vars(Next)

\* read_all was called
InitAll ==
    /\ EngineIdle
    /\ FnIdle
    /\ field = 1
    /\ values = <<>>
    /\ out = [kind |-> "none"]
    /\ reads = <<>>

NextAll == ReadField

SpecAll == InitAll /\ [][NextAll]_vars

InitEncode ==
    /\ EngineIdle
    /\ AllIdle
    /\ call = "none"
    /\ arg \in [address : Addresses, size : Sizes]
    /\ result = [kind |-> "none"]

NextEncode == ApplyEncode

SpecEncode == InitEncode /\ [][NextEncode]_vars

\* read was called with memory = arg and the handshake succeeded
InitCheck ==
    /\ EngineIdle
    /\ AllIdle
    /\ call = "none"
    /\ arg \in [address : Addresses, size : Sizes]
    /\ result = [kind |-> "none"]

NextCheck == ApplyCheck

SpecCheck == InitCheck /\ [][NextCheck]_vars

InitRound ==
    /\ EngineIdle
    /\ AllIdle
    /\ call = "none"
    /\ arg \in [x : RoundInputs, n : 0 .. MaxPlaces]
    /\ result = [kind |-> "none"]

NextRound == ApplyRound

SpecRound == InitRound /\ [][NextRound]_vars

InitDecode ==
    /\ EngineIdle
    /\ AllIdle
    /\ call = "none"
    /\ arg \in { Ok(<<b>>) : b \in Byte } \cup { Err("Try read error") }
    /\ result = [kind |-> "none"]

NextDecode == ApplyAccessor

SpecDecode == InitDecode /\ [][NextDecode]_vars

----------------------------------------------------------------------------
(* Properties *)

\* C1: try_read makes its read attempts one after another and stops at the
\* first that succeeds: when the first k attempts failed and attempt k+1
\* succeeded, it returns exactly the data bytes the channel delivered in
\* attempt k+1, has made exactly k+1 attempts, and nothing happens afterwards.
C1_FirstSuccessReturned ==
    /\ pc # "done" => ret.kind = "none" /\ attempts = failures + 1 /\ attempts = i + 1
    /\ ret.kind = "ok" =>
         /\ pc = "done"
         /\ ret.bytes = wire
         /\ Len(ret.bytes) = memory.size
         /\ failures < MaxAttempts
         /\ attempts = failures + 1
         /\ ~ ENABLED Next

\* three failed attempts, then the fourth succeeds
C1_Witness ==
    /\ ret.kind = "ok"
    /\ failures = 3
    /\ attempts = 4
    /\ ret.bytes = <<16, 33>>

\* C2: try_read fails exactly when all 50 attempts failed, the error it
\* returns is always "Try read error", the error of a single attempt is
\* swallowed (the next attempt starts), and there is no 51st attempt.
C2_OnlyReadExhausted ==
    /\ attempts <= MaxAttempts
    /\ failures <= MaxAttempts
    /\ ret.kind = "err" <=> failures = MaxAttempts
    /\ ret.kind = "err" =>
         /\ ret = Err("Try read error")
         /\ pc = "done"
         /\ attempts = MaxAttempts
         /\ ~ ENABLED Next
    /\ (err # "none" /\ failures < MaxAttempts) =>
         /\ ret.kind = "none"
         /\ pc = "flush"
         /\ attempts = failures + 1

\* the 50th attempt failed on its checksum and the read is exhausted
C2_Witness ==
    /\ ret.kind = "err"
    /\ err = "Check data error"
    /\ failures = MaxAttempts

\* C3: read_all yields no partial snapshot: when the try_read of a field
\* fails, read_all returns that error, no Data is produced, and no later
\* field is read.
C3_NoPartialSnapshot ==
    /\ \A k \in 1 .. Len(reads) :
         reads[k].result.kind = "err" =>
            /\ k = Len(reads)
            /\ out = [kind |-> "err", msg |-> "Try read error"]
            /\ values = <<>>
            /\ ~ ENABLED NextAll
    /\ out.kind = "ok" =>
         /\ Len(reads) = Len(FieldOrder)
         /\ \A k \in 1 .. Len(reads) : reads[k].result.kind = "ok"

\* the sixth field's read is exhausted after five fields were read
C3_Witness ==
    /\ out.kind = "err"
    /\ Len(reads) = 6
    /\ reads[6].region = "wind_speed"

\* C4: for every byte a successful read of the tendency region returns,
\* tendency() gives the label its high nibble selects among Steady, Rising,
\* Falling and forecast() the label its low nibble selects among Rainy,
\* Cloudy, Sunny; the accessor ends with a label or an error, never a panic.
C4_LabelForEveryByte ==
    call \in {"tendency", "forecast"} =>
        IF arg.kind = "ok"
        THEN /\ result.kind = "ok"
             /\ call = "tendency" => result.val \in {"Steady", "Rising", "Falling"}
             /\ call = "forecast" => result.val \in {"Rainy", "Cloudy", "Sunny"}
        ELSE result.kind = "err"

\* C5: in every snapshot of read_all the tendency label and the forecast
\* label are the high-nibble and low-nibble decodings of one raw byte, the
\* byte of one read of the tendency region.
C5_LabelsFromOneByte ==
    out.kind = "ok" =>
        \E k \in 1 .. Len(reads) :
            /\ reads[k].region = "tendency"
            /\ tendency(reads[k].result.bytes) = Value(out.data.tendency)
            /\ forecast(reads[k].result.bytes) = Value(out.data.forecast)

ReadRegions == [ k \in 1 .. Len(reads) |-> reads[k].region ]

\* C6 as stated: a snapshot costs 14 logical reads and no region is read twice.
C6_FourteenReads ==
    out.kind = "ok" =>
        /\ Len(reads) = 14
        /\ \A j, k \in 1 .. Len(reads) : j # k => reads[j].region # reads[k].region

\* C6 (amended): read_all calls try_read once per field, in field order: a
\* snapshot costs 15 logical reads over the 13 regions; wind speed has its
\* own region, and the wind-direction region and the tendency region are
\* each read twice.
C6_FifteenReads ==
    LET order == << "temperature_indoor", "temperature_outdoor", "dewpoint",
                    "humidity_indoor", "humidity_outdoor", "wind_speed", "wind_dir",
                    "wind_dir", "wind_chill", "rain_1h", "rain_24h", "rain_total",
                    "pressure", "tendency", "tendency" >>
    IN  /\ Len(reads) <= 15
        /\ ReadRegions = SubSeq(order, 1, Len(reads))
        /\ out.kind = "ok" =>
             /\ Len(reads) = 15
             /\ Cardinality({ reads[k].region : k \in 1 .. 15 }) = 13
             /\ Cardinality({ k \in 1 .. 15 : reads[k].region = "wind_dir" }) = 2
             /\ Cardinality({ k \in 1 .. 15 : reads[k].region = "tendency" }) = 2
             /\ Cardinality({ k \in 1 .. 15 : reads[k].region = "wind_speed" }) = 1

\* a complete snapshot
C6_Witness ==
    /\ out.kind = "ok"
    /\ Len(reads) = 15
    /\ out.data.wind_direction = "E"

\* C7: address 0x06, and only it, encodes to [0x06]; every other 16-bit
\* address encodes to 5 bytes, byte k (k = 0..3) being 0x82 + 4 * (k-th nibble,
\* most significant first) and byte 4 min(0xC2 + 4 * width, 0xFE), all of them
\* in [0x82, 0xFE]; 0x346 with width 2 gives [0x82, 0x8E, 0x92, 0x9A, 0xCA].
C7_EncodeAddress ==
    call = "encode_address" =>
        LET a == arg.address
            w == arg.size
            c == result.val
        IN  /\ a = 6 <=> c = <<6>>
            /\ a # 6 =>
                 /\ Len(c) = 5
                 /\ c[1] = 130 + 4 * ((a \div 4096) % 16)
                 /\ c[2] = 130 + 4 * ((a \div 256) % 16)
                 /\ c[3] = 130 + 4 * ((a \div 16) % 16)
                 /\ c[4] = 130 + 4 * (a % 16)
                 /\ c[5] = (IF 194 + 4 * w < 254 THEN 194 + 4 * w ELSE 254)
                 /\ \A k \in 1 .. 5 : c[k] >= 130 /\ c[k] <= 254
            /\ (a = 838 /\ w = 2) => c = <<130, 142, 146, 154, 202>>

\* the example of test_address_encode
C7_Witness ==
    /\ call = "encode_address"
    /\ arg = [address |-> 838, size |-> 2]
    /\ result.val = <<130, 142, 146, 154, 202>>

\* C8: for every byte b of a successful read of the wind-direction region,
\* wind_dir is (b >> 4) * 22.5 to one decimal and wind_direction is entry
\* b >> 4 of the rose N, NNE, .., NNW; the index is inside the table for all
\* 256 bytes (0 gives N, 4 gives E and 90.0, 15 gives NNW).
C8_BearingAndLabel ==
    (call \in {"wind_dir", "wind_direction"} /\ arg.kind = "ok") =>
        LET index == arg.bytes[1] \div 16
        IN  /\ index \in 0 .. 15
            /\ result.kind = "ok"
            /\ call = "wind_dir" =>
                 /\ result.val = index * 225 * (Unit \div 10)
                 /\ result.val % (Unit \div 10) = 0
                 /\ index = 4 => result.val = 90 * Unit
            /\ call = "wind_direction" =>
                 /\ result.val = directions[index + 1]
                 /\ index = 0 => result.val = "N"
                 /\ index = 4 => result.val = "E"
                 /\ index = 15 => result.val = "NNW"

\* byte 0x4F: bearing 90.0
C8_Witness ==
    /\ call = "wind_dir"
    /\ arg = Ok(<<79>>)
    /\ result.val = 90 * Unit

\* C9: round(x, n) adds to the integer part of x the fractional part rounded
\* to n decimals by magnitude (half away from zero): the result is a multiple
\* of 10^-n nearest to x, with the integer part of x unless the fraction
\* rounds to a whole, round(round(x, n), n) = round(x, n), and
\* round(100.0, 2) = 100.00, round(100.12345, 2) = 100.12,
\* round(-100.12345, 2) = -100.12, round(100.12345, 5) = 100.12345.
C9_Round ==
    call = "round" =>
        LET v == arg.x
            k == arg.n
            y == result.val
            step == IF k >= Digits THEN 1 ELSE Pow10(Digits - k)
            e == 10012345 * Pow10(Digits - 5)
        IN  /\ round(y, k) = y
            /\ y % step = 0
            /\ 2 * Abs(y - v) <= step
            /\ 2 * Abs(y - v) = step => Abs(y) > Abs(v)
            /\ Trunc(y) = Trunc(v) \/ Abs(y) = Abs(Trunc(v)) + Unit
            /\ (v = 100 * Unit /\ k = 2) => y = 100 * Unit
            /\ (v = e /\ k = 2) => y = 10012 * Pow10(Digits - 2)
            /\ (v = -e /\ k = 2) => y = -10012 * Pow10(Digits - 2)
            /\ (v = e /\ k = 5) => y = e

\* round(-100.12345, 2) = -100.12
C9_Witness ==
    /\ call = "round"
    /\ arg = [x |-> -10012345 * Pow10(Digits - 5), n |-> 2]
    /\ result.val = -10012 * Pow10(Digits - 2)

\* C10: in one probing round of reset the reset byte is written once, right
\* after the flush, and at most 10 responses are read: busy (0x01) reads
\* again in the same round without a new reset byte, ready (0x02) ends the
\* handshake at once (the next operation is the first command byte: no sleep,
\* no flush), any other byte or a failed read abandons the round, and the
\* 10th busy in a row ends the round as not ready.
C10_Step ==
    /\ pc = "write_reset" => op = FlushOp
    /\ pc = "read_response" =>
         /\ n < MaxResponses
         /\ (n = 0 /\ op = WriteOp(ResetByte)) \/ (n > 0 /\ op = ReadOp(Busy))
         /\ op'.kind = "read"
         /\ (op'.byte = Busy /\ n + 1 < MaxResponses) =>
              pc' = "read_response" /\ n' = n + 1 /\ x' = x /\ i' = i
         /\ (op'.byte = Busy /\ n + 1 = MaxResponses) =>
              pc' = "sleep" /\ x' = x /\ i' = i /\ ret' = ret
         /\ op'.byte = Ready =>
              pc' = "write_command" /\ seq' = 0 /\ i' = i /\ err' = "none" /\ ret' = ret
         /\ op'.byte \notin {Busy, Ready} =>
              pc' = "sleep" /\ x' = x /\ i' = i /\ ret' = ret
    /\ (pc \in {"flush", "write_reset", "read_response", "sleep"} /\ pc' = "write_command") =>
         (pc = "read_response" /\ op' = ReadOp(Ready))
    /\ op'.kind = "sleep" => pc = "sleep"
    /\ (op'.kind = "write" /\ pc = "write_reset") => op' = WriteOp(ResetByte)

C10_ProbingRound == [][C10_Step]_vars

\* a round that ended on its 10th busy answer
C10_Witness ==
    /\ pc = "sleep"
    /\ op = ReadOp(Busy)
    /\ x = 1

\* C11: a handshake makes at most 100 probing rounds: it succeeds in the
\* first round in which 0x02 is read, and when the 100th round has ended
\* without 0x02 it fails with "reset failed", which try_read counts as one
\* failed attempt; a 101st round is never started.
C11_Step ==
    /\ x < MaxRounds
    /\ x' < MaxRounds
    /\ (pc = "read_response" /\ op'.byte = Ready) =>
         pc' = "write_command" /\ failures' = failures /\ i' = i
    /\ (pc = "sleep" /\ x + 1 < MaxRounds) =>
         pc' = "flush" /\ x' = x + 1 /\ i' = i /\ failures' = failures /\ err' = "none"
    /\ (pc = "sleep" /\ x + 1 = MaxRounds) =>
         /\ err' = "reset failed"
         /\ failures' = failures + 1
         /\ x' = 0
         /\ pc' \in {"flush", "done"}
         /\ pc' = "flush" <=> i' = i + 1
    /\ err' = "reset failed" => (pc = "sleep" /\ x = MaxRounds - 1)
    /\ (pc' = "flush" /\ x' > 0) => (pc = "sleep" /\ x' = x + 1)

C11_HundredRounds == [][C11_Step]_vars

\* the first attempt failed after 100 rounds
C11_Witness ==
    /\ err = "reset failed"
    /\ failures = 1
    /\ op = SleepOp(SleepUnitMs * MaxRounds)
    /\ pc = "flush"

\* C12 as stated: a round r that did not reach Ready is followed by a sleep
\* of 100 ms * (r + 1) and a retry from the flush step, and a sleep happens
\* only when there is a round to retry.
C12_Step ==
    op'.kind = "sleep" =>
        /\ pc = "sleep"
        /\ op'.ms = 100 * (x + 1)
        /\ pc' = "flush"
        /\ x' = x + 1
        /\ i' = i

C12_SleepOnlyBeforeRetry == [][C12_Step]_vars

\* C12 (amended): every round r that did not reach Ready, the 100th
\* included, is followed by a sleep of 100 ms * (r + 1): the sleeps of one
\* handshake are 100, 200, 300, .. ms in order, each after the last response
\* read of its round; after rounds 0..98 the next operation is the flush of
\* round r + 1, after round 99 (sleep of 10000 ms) the handshake fails
\* without another round.
C12_AmendedStep ==
    /\ pc = "sleep" => (op.kind = "read" /\ op.byte # Ready)
    /\ pc = "sleep" => op' = SleepOp(100 * (x + 1))
    /\ op'.kind = "sleep" =>
         /\ pc = "sleep"
         /\ op'.ms \in { 100 * r : r \in 1 .. 100 }
         /\ x < 99 => (pc' = "flush" /\ x' = x + 1 /\ i' = i /\ err' = "none")
         /\ x = 99 => (op'.ms = 10000 /\ err' = "reset failed" /\ x' = 0
                        /\ failures' = failures + 1)
    /\ (pc = "flush" /\ x > 0) => op = SleepOp(100 * x)
    /\ (pc = "flush" /\ x = 0) => op.kind # "sleep" \/ op.ms = 10000

C12_SleepAfterEveryRound == [][C12_AmendedStep]_vars

\* the third sleep of a handshake, 300 ms, before the flush of round 3
C12_Witness ==
    /\ pc = "flush"
    /\ x = 3
    /\ op = SleepOp(300)

\* C13: every read attempt, retries included, is a full fresh handshake
\* followed by the command: it starts with flush and then the write of 0x06,
\* with the round counter and every other per-attempt value as at the first
\* attempt, and a command byte is written only after 0x02 has been read in
\* the same attempt.
C13_Step ==
    /\ i' # i =>
         /\ i' = i + 1
         /\ attempts' = attempts + 1
         /\ pc' = "flush"
         /\ <<x', n', seq', response', wire'>> = <<0, 0, 0, <<>>, <<>>>>
    /\ (pc = "flush" /\ x = 0) =>
         /\ <<n, seq, response, wire>> = <<0, 0, <<>>, <<>>>>
         /\ op' = FlushOp
         /\ pc' = "write_reset" \/ i' = i + 1 \/ pc' = "done"
    /\ pc = "write_reset" => op' = WriteOp(ResetByte)
    /\ pc' = "write_reset" => (pc = "flush" /\ op' = FlushOp /\ i' = i)
    /\ (pc' = "write_command" /\ seq' = 0) =>
         (pc = "read_response" /\ op' = ReadOp(Ready) /\ i' = i)
    /\ op'.kind = "write" =>
         \/ pc = "write_reset" /\ op'.byte = ResetByte
         \/ pc = "write_command" /\ op'.byte = command[seq + 1]

C13_FreshHandshake == [][C13_Step]_vars

\* the second attempt has read 0x02 and is about to write its first command byte
C13_Witness ==
    /\ i = 1
    /\ attempts = 2
    /\ pc = "write_command"
    /\ seq = 0
    /\ op = ReadOp(Ready)

\* the seq-th nibble of a 16-bit address, most significant first
C14_AddressNibble(address, k) == (address \div (16 ^ (3 - k))) % 16

C14_Echo(k) ==
    IF k < 4
    THEN k * 16 + C14_AddressNibble(memory.address, k)
    ELSE 48 + memory.size

\* C14: in the command phase writes and reads alternate: a command byte is
\* written only after one echo for the byte before it has been read and has
\* matched seq*16 + (cmd - 0x82)/4 (positions 0..3) or 0x30 + (cmd - 0xC2)/4
\* (position 4), which for a region (address, width <= 15) is
\* seq*16 + the seq-th address nibble and 0x30 + width.
C14_Step ==
    /\ pc = "write_command" =>
         /\ op' = WriteOp(command[seq + 1])
         /\ pc' = "read_echo" \/ err' = "io"
         /\ pc' = "read_echo" => seq' = seq
    /\ pc = "read_echo" =>
         /\ op.kind = "write"
         /\ op'.kind = "read"
         /\ pc' # "read_echo"
         /\ pc' \in {"write_command", "read_data", "read_checksum"} =>
              /\ seq' = seq + 1
              /\ op'.byte = (IF seq < 4
                             THEN seq * 16 + ((op.byte - 130) \div 4)
                             ELSE 48 + ((op.byte - 194) \div 4))
              /\ op'.byte = C14_Echo(seq)
              /\ pc' = "write_command" <=> seq < 4
    /\ (pc' = "write_command" /\ seq' > 0) => pc = "read_echo"
    /\ pc' = "read_echo" => pc = "write_command"

C14_WriteEchoAlternate == [][C14_Step]_vars

\* the fifth byte of the command for the indoor temperature is about to be
\* written after four matching echoes
C14_Witness ==
    /\ memory = MemoryMap.temperature_indoor
    /\ pc = "write_command"
    /\ seq = 4
    /\ op = ReadOp(3 * 16 + C14_AddressNibble(memory.address, 3))

\* C15: an echo mismatch at any position fails the read attempt at once: no
\* further command byte, no data or checksum byte, no retry inside the
\* attempt; the next channel operation, if an attempt is left, is the flush
\* of the next attempt's handshake.
C15_Step ==
    /\ (pc = "read_echo" /\ op'.byte # Failed /\ op'.byte # C14_Echo(seq)) =>
         /\ err' = "Check error"
         /\ failures' = failures + 1
         /\ IF i + 1 < MaxAttempts
            THEN pc' = "flush" /\ i' = i + 1 /\ x' = 0 /\ seq' = 0 /\ ret' = ret
            ELSE pc' = "done" /\ ret' = Err("Try read error")
    /\ err' = "Check error" =>
         (pc = "read_echo" /\ op'.kind = "read" /\ op'.byte # C14_Echo(seq))
    /\ pc = "flush" => op' = FlushOp
    /\ pc = "done" => op' = op

C15_EchoMismatchFailsAttempt == [][C15_Step]_vars

\* the first attempt ended on a wrong echo of its third command byte
C15_Witness ==
    /\ err = "Check error"
    /\ pc = "flush"
    /\ i = 1
    /\ failures = 1
    /\ op.kind = "read"
    /\ op.byte = 2 * 16 + C14_AddressNibble(memory.address, 1)
    /\ op.byte # C14_Echo(2)

\* the sum of a data sequence of length 1 to 3
C16_Total(d) ==
    IF Len(d) = 1 THEN d[1]
    ELSE IF Len(d) = 2 THEN d[1] + d[2]
    ELSE d[1] + d[2] + d[3]

\* C16: the checksum validates if and only if the sum of the data bytes
\* modulo 256 equals the checksum byte, for data of length 1 to 3 and every
\* checksum byte; a mismatch fails the attempt, and no data whose checksum
\* did not validate is returned by read or try_read.
C16_Step ==
    /\ (pc = "read_checksum" /\ op'.byte # Failed) =>
         /\ Len(wire) \in 1 .. 3
         /\ ret'.kind = "ok" <=> op'.byte = C16_Total(wire) % 256
         /\ ret'.kind # "ok" => (err' = "Check data error" /\ failures' = failures + 1)
         /\ check_data(op'.byte, wire) <=> op'.byte = C16_Total(wire) % 256
    /\ ret'.kind = "ok" =>
         /\ pc = "read_checksum"
         /\ ret'.bytes = wire
         /\ op'.kind = "read"
         /\ op'.byte = C16_Total(ret'.bytes) % 256
    /\ err' = "Check data error" =>
         (pc = "read_checksum" /\ op'.byte # C16_Total(wire) % 256 /\ ret'.kind # "ok")

C16_ChecksumValidated == [][C16_Step]_vars

\* three bytes whose sum 765 wraps to the checksum 253
C16_Witness ==
    /\ ret = Ok(<<255, 255, 255>>)
    /\ op = ReadOp(253)
    /\ pc = "done"

\* C17: after all command bytes are echo-verified an attempt reads exactly
\* width data bytes and then exactly one checksum byte and nothing more; a
\* successful read returns exactly width bytes, the data bytes in the order
\* received, without the checksum byte.
C17_Step ==
    /\ (pc = "read_echo" /\ pc' \in {"read_data", "read_checksum"}) =>
         (seq' = Len(command) /\ response' = <<>> /\ wire' = <<>>)
    /\ pc' = "read_data" => pc \in {"read_echo", "read_data"}
    /\ pc = "read_data" =>
         /\ Len(response) < memory.size
         /\ op'.kind = "read"
         /\ op'.byte # Failed =>
              /\ response' = Append(response, op'.byte)
              /\ wire' = Append(wire, op'.byte)
              /\ pc' = "read_data" <=> Len(response') < memory.size
              /\ pc' = "read_checksum" <=> Len(response') = memory.size
    /\ pc' = "read_checksum" =>
         (pc \in {"read_echo", "read_data"} /\ Len(response') = memory.size)
    /\ pc = "read_checksum" =>
         /\ Len(response) = memory.size
         /\ response = wire
         /\ op'.kind = "read"
         /\ pc' \in {"done", "flush"}
         /\ ret'.kind = "ok" => pc' = "done"
    /\ ret'.kind = "ok" =>
         /\ ret'.bytes = wire'
         /\ Len(ret'.bytes) = memory.size
         /\ op'.byte \in Byte

C17_WidthBytesThenChecksum == [][C17_Step]_vars

\* a three-byte region returned as received, the checksum 49 left out
C17_Witness ==
    /\ memory.size = 3
    /\ ret = Ok(<<0, 16, 33>>)
    /\ wire = <<0, 16, 33>>
    /\ op = ReadOp(49)

\* C18: for every byte of encode_address's output for any 16-bit address and
\* any width, the single-byte command [0x06] of the special-case address
\* included, the u8 subtraction of the expected-echo formula does not
\* underflow: cmd >= 0x82 at positions 0..3 and cmd >= 0xC2 at position 4.
C18_NoUnderflow ==
    call = "check" =>
        /\ result # Panic
        /\ \A k \in 0 .. (Min(Len(encode_address(arg)), 5) - 1) :
             encode_address(arg)[k + 1] >= (IF k < 4 THEN 130 ELSE 194)

\* the attempt ended here: one more failure, and either the next attempt
\* starts at its flush or the attempts are used up
C19_AttemptEnded ==
    /\ err' = "io"
    /\ failures' = failures + 1
    /\ x' = 0
    /\ IF i + 1 < MaxAttempts
       THEN pc' = "flush" /\ i' = i + 1 /\ attempts' = attempts + 1
       ELSE pc' = "done" /\ i' = i /\ ret' = Err("Try read error")

\* C19: a failed response read only abandons the current probing round
\* (backoff sleep, then the next round while one is left); a failed flush or
\* a failed write of the reset byte ends the handshake and the read attempt
\* at once, without sleep or further round, and uses up exactly one of the
\* 50 attempts.
C19_Step ==
    /\ (pc = "flush" /\ pc' # "write_reset") => (op' = FlushOp /\ C19_AttemptEnded)
    /\ (pc = "write_reset" /\ pc' # "read_response") =>
         (op' = WriteOp(ResetByte) /\ C19_AttemptEnded)
    /\ (pc = "read_response" /\ op'.byte = Failed) =>
         /\ pc' = "sleep"
         /\ <<i', x', failures', attempts'>> = <<i, x, failures, attempts>>
         /\ err' = "none"
    /\ pc' = "sleep" => (pc = "read_response" /\ op'.kind = "read" /\ op'.byte # Ready)
    /\ op'.kind = "sleep" => pc = "sleep"
    /\ (pc = "sleep" /\ x + 1 < MaxRounds) =>
         (pc' = "flush" /\ x' = x + 1 /\ i' = i /\ failures' = failures)
    /\ (pc \in {"flush", "write_reset", "read_response", "sleep"} /\ err' = "io") =>
         (pc \in {"flush", "write_reset"} /\ op'.kind \in {"flush", "write"})

C19_HandshakeFailures == [][C19_Step]_vars

\* the write of the reset byte failed in the first attempt, which ended there
C19_Witness ==
    /\ err = "io"
    /\ op = WriteOp(ResetByte)
    /\ failures = 1
    /\ i = 1
    /\ pc = "flush"
    /\ x = 0

\* steps one probing round can take: flush, write, the response reads, sleep
C20_RoundSpan == MaxResponses + 3

\* steps of the handshake of one attempt
C20_HandshakeSpan == MaxRounds * C20_RoundSpan

\* steps one attempt can take: handshake, five writes and echoes, data, checksum
C20_AttemptSpan == C20_HandshakeSpan + 2 * 5 + Len(encode_address(memory)) + memory.size + 2

\* how far a public read has come: attempts used, and the position of the
\* current attempt
C20_Measure ==
    IF pc = "done" THEN MaxAttempts * C20_AttemptSpan
    ELSE i * C20_AttemptSpan +
         CASE pc = "flush"          -> x * C20_RoundSpan
           [] pc = "write_reset"    -> x * C20_RoundSpan + 1
           [] pc = "read_response"  -> x * C20_RoundSpan + 2 + n
           [] pc = "sleep"          -> x * C20_RoundSpan + 2 + MaxResponses
           [] pc = "write_command"  -> C20_HandshakeSpan + 2 * seq
           [] pc = "read_echo"      -> C20_HandshakeSpan + 2 * seq + 1
           [] pc = "read_data"      -> C20_HandshakeSpan + 2 * 5 + Len(response)
           [] pc = "read_checksum"  -> C20_HandshakeSpan + 2 * 5 + Len(response) + 1

C20_Step ==
    /\ C20_Measure' > C20_Measure
    /\ op'.kind = "write" /\ op'.byte = ResetByte /\ pc = "write_reset" =>
         C20_Measure = i * C20_AttemptSpan + x * C20_RoundSpan + 1
    /\ pc = "read_response" =>
         /\ op'.kind = "read"
         /\ C20_Measure = i * C20_AttemptSpan + x * C20_RoundSpan + 2 + n

C20_Bounds ==
    /\ i \in 0 .. MaxAttempts - 1
    /\ x \in 0 .. MaxRounds - 1
    /\ n \in 0 .. MaxResponses - 1
    /\ attempts \in 1 .. MaxAttempts
    /\ failures \in 0 .. MaxAttempts
    /\ C20_Measure \in 0 .. MaxAttempts * C20_AttemptSpan

\* C20: when every channel operation returns, every public read terminates
\* whatever the device answers (busy for ever, or nothing): every step moves
\* the read strictly forward through at most 50 attempts of at most 100
\* rounds of one reset byte and at most 10 response reads each, so one read
\* makes at most 50 attempts, writes at most 50 * 100 reset bytes and reads
\* at most 50 * 100 * 10 handshake responses, and then is done.
C20_Terminates ==
    /\ <>(pc = "done")
    /\ [][C20_Step]_vars
    /\ []C20_Bounds

\* the device never answered ready: all 50 attempts were used, the last one
\* ended after its 100th round, and the read has returned
C20_Witness ==
    /\ pc = "done"
    /\ ret = Err("Try read error")
    /\ attempts = MaxAttempts
    /\ failures = MaxAttempts
    /\ err = "reset failed"
    /\ op = SleepOp(SleepUnitMs * MaxRounds)

====
